---- MODULE Spec2Model ----
(***************************************************************************)
(* YTSCMonitor (src/ytscm/monitor.py): the fetch / dedup / pagination      *)
(* cycle over the sqlite progress table, and the self-rescheduling         *)
(* autofetch timer behind start() and stop().                              *)
(*                                                                         *)
(* A super chat is represented by its identifier.  The progress table      *)
(* "superchats (id TEXT)" has no key, so it is a bag of identifiers: a     *)
(* function from identifier to the number of rows holding it.              *)
(*                                                                         *)
(* fetch() may be executing in several threads at once: in the thread that *)
(* calls it by hand (caller Main) and in the Timer thread of every         *)
(* __AutoFetchTimer (caller t).  Each call has its own locals and its own  *)
(* sqlite connection; the connections share the committed table and the    *)
(* write lock of the file.                                                 *)
(*                                                                         *)
(* Spec      : fetch cycles run one after another by one caller, against a *)
(*             feed that may grow at its head and a handler that may fail. *)
(* SpecSched : the control thread calling start()/stop() and the Timer     *)
(*             threads of every __AutoFetchTimer created, each tick        *)
(*             running a fetch cycle.                                      *)
(* SpecOverlap : SpecSched next to fetch() called by hand.                 *)
(* SpecWalk  : the fetch cycles of Spec with a handler and a transport     *)
(*             that never fail, on a longer feed.                          *)
(* SpecCtor  : the steps of YTSCMonitor.__init__, for both values of init, *)
(*             on a new or an already used progress file.                  *)
(***************************************************************************)
EXTENDS Integers, Sequences, FiniteSets

\* ------------------------------------------------------------------ bounds
\* identifiers the feed draws from
MaxId == 7
\* longest feed
MaxFeed == 5
\* entries of the feed that repeat the identifier of another entry
MaxDups == 1
\* longest feed when neither the handler nor the transport fails
MaxWalkFeed == 7
\* longest feed while the timers run
MaxSchedFeed == 2
\* number of items the server puts on one page (at most maxResults)
PageLen == 3
\* rows the table may hold when a further cycle is begun
MaxRows == 4
\* __AutoFetchTimer objects created by start() calls
MaxTimers == 2

\* maxResults of the list request
maxResults == 50

Ids == 1..MaxId
None == -1
\* the threads that may be inside fetch(): the one calling it by hand, and
\* the Timer thread of each __AutoFetchTimer
Main == 0
Timers == 1..MaxTimers
Callers == {Main} \cup Timers

VARIABLES
    \* the remote feed, newest first, and whether the server puts a
    \* nextPageToken on a response that reaches the end of the feed
    feed, endToken,
    \* the sqlite file: whether the table exists, its committed rows, and the
    \* caller whose connection holds the write lock (None: nobody)
    tableExists, db, writer,
    \* fetch(), per caller: the rows its connection has inserted and not
    \* committed, the position in fetch(), and its locals
    con, pc, token, is_finished, buffer, page, idx,
    \* what the current (or the last) cycle of each caller did: the handler
    \* calls in order, the page requests, how it ended, the item whose
    \* handler call raised and the place of that call in calls, the
    \* identifiers that were fetched already when the current page arrived,
    \* and whether the last response came without nextPageToken
    calls, pages, result, failed, failedAt, seenAtPage, noToken,
    \* what the earlier cycles of caller Main did: the identifiers whose
    \* handler call returned (in the cycles that no transport error cut
    \* short), how the previous cycle ended and the item its handler
    \* failed for, and the number of cycles begun since the feed last changed
    \* (2 stands for 2 or more)
    earlier, prevResult, prevFailed, unchanged,
    \* YTSCMonitor.__autofetch_timer and the fields of every timer created
    \* (thread: where the timer's current Timer thread is; finished: the
    \* finished event of the Timer that self.thread names), the position of
    \* the control thread inside stop(), and what the scheduler was doing
    \* when stop() was called (waiting for a tick, its current timer
    \* executing a cycle, or busy otherwise)
    autofetch_timer, should_continue, is_running, thread, finished, stopPc, atStop,
    \* YTSCMonitor.__init__: its init and update_function arguments, its
    \* position, and the fields it assigns (self.__progress_db is no
    \* attribute until line 80; self.__update is the class attribute None
    \* until line 77)
    init, update_function, ctorPc, progress_db, update

feedVars  == <<feed, endToken>>
storeVars == <<tableExists, db, writer>>
fetchVars == <<con, pc, token, is_finished, buffer, page, idx>>
cycleVars == <<calls, pages, result, failed, failedAt, seenAtPage, noToken>>
histVars  == <<earlier, prevResult, prevFailed, unchanged>>
schedVars == <<autofetch_timer, should_continue, is_running, thread, finished, stopPc,
               atStop>>
ctorVars == <<init, update_function, ctorPc, progress_db, update>>
vars == <<feedVars, storeVars, fetchVars, cycleVars, histVars, schedVars, ctorVars>>

\* ----------------------------------------------------------------- helpers
Min(a, b) == IF a < b THEN a ELSE b
Range(s) == {s[k] : k \in 1..Len(s)}
\* the number of entries that repeat the identifier of another entry
Repeats(f) == Len(f) - Cardinality(Range(f))
\* the next identifier the feed has not used, if one is left
Fresh(f) == {i \in Ids : i = Cardinality(Range(f)) + 1}
EmptyTable == [i \in Ids |-> 0]
\* the identifiers of the handler calls that returned
Returned(cs, bad) == {cs[k] : k \in (1..Len(cs)) \ {bad}}
RowCount(t) == LET RECURSIVE Sum(_)
                   Sum(S) == IF S = {} THEN 0
                             ELSE LET i == CHOOSE j \in S : TRUE
                                  IN t[i] + Sum(S \ {i})
               IN Sum(Ids)

\* ------------------------------------------------------------------- store
\* a store that would create its table anew whenever it is opened
CreateTableDropping(exists, rows) == EmptyTable
\* CREATE TABLE IF NOT EXISTS superchats (id TEXT)
CreateTable(exists, rows) == IF exists THEN rows ELSE EmptyTable

\* SELECT count(*) FROM superchats WHERE id = ?  ...  fetched == 1
IsFetched(id, c) == c[id] = 1

\* INSERT INTO superchats VALUES (?) for each x in buffer
RECURSIVE InsertAll(_, _)
InsertAll(c, buf) ==
    IF buf = <<>> THEN c
    ELSE InsertAll([c EXCEPT ![Head(buf)] = @ + 1], Tail(buf))

\* what a connection reads: the committed rows and its own inserts
View(committed, inserted) == [i \in Ids |-> committed[i] + inserted[i]]

\* con.commit(): the connection's inserts join the committed rows
Commit(committed, inserted) == View(committed, inserted)
\* a connection that would keep its inserts when an exception leaves the block
RollbackKeepingInserts(committed, inserted) == View(committed, inserted)
\* an exception leaving "with sqlite3.connect(...) as con": rollback
Rollback(committed, inserted) == committed

\* the first INSERT of a transaction takes the write lock of the file; it
\* is free for a connection when nobody or the connection itself holds it
LockFree(holder, c) == holder = None \/ holder = c
\* commit and rollback end the transaction and give the lock back
Released(holder, c) == IF holder = c THEN None ELSE holder

\* ------------------------------------------------------------- feed client
\* superChatEvents().list(maxResults, pageToken).execute(): the items from
\* the token's position on, and the token of the position after them
Offset(tok) == IF tok = None THEN 0 ELSE tok
Items(f, tok) ==
    SubSeq(f, Offset(tok) + 1, Min(Offset(tok) + Min(PageLen, maxResults), Len(f)))
NextToken(f, tok) == Offset(tok) + Len(Items(f, tok))
HasNextPageToken(f, tok, atEnd) == NextToken(f, tok) < Len(f) \/ atEnd

\* ------------------------------------------------------------------- Init
Results == {"returned", "handler", "TypeError", "transport", "KeyError", "sqlite"}

TypeOK ==
    /\ feed \in Seq(Ids) /\ Repeats(feed) <= MaxDups
    /\ endToken \in BOOLEAN /\ tableExists \in BOOLEAN
    /\ writer \in Callers \cup {None}
    /\ \A c \in Callers :
          /\ pc[c] \in {"idle", "request", "items"}
          /\ result[c] \in {"none", "running"} \cup Results
          /\ failed[c] \in Ids \cup {None}
          /\ failedAt[c] \in 0..Len(calls[c])
          /\ noToken[c] \in BOOLEAN
          /\ \A i \in Ids : con[c][i] \in Nat
          /\ (c # writer) => con[c] = EmptyTable
    /\ \A i \in Ids : db[i] \in Nat
    /\ prevResult \in {"none"} \cup Results
    /\ prevFailed \in Ids \cup {None}
    /\ unchanged \in 0..2
    /\ autofetch_timer \in {None} \cup Timers
    /\ init \in BOOLEAN
    /\ ctorPc \in {"init", "update", "progress_db", "table", "done", "raised"}
    /\ progress_db \in {"unset", "path"}
    /\ update \in {"None", "function"} /\ update_function \in {"None", "function"}

\* no caller is inside fetch() and no start() was called
Quiet ==
    /\ writer = None
    /\ con = [c \in Callers |-> EmptyTable]
    /\ pc = [c \in Callers |-> "idle"]
    /\ token = [c \in Callers |-> None]
    /\ is_finished = [c \in Callers |-> FALSE]
    /\ buffer = [c \in Callers |-> <<>>]
    /\ page = [c \in Callers |-> <<>>]
    /\ idx = [c \in Callers |-> 1]
    /\ calls = [c \in Callers |-> <<>>]
    /\ pages = [c \in Callers |-> 0]
    /\ result = [c \in Callers |-> "none"]
    /\ failed = [c \in Callers |-> None]
    /\ failedAt = [c \in Callers |-> 0]
    /\ seenAtPage = [c \in Callers |-> {}]
    /\ noToken = [c \in Callers |-> FALSE]
    /\ earlier = {}
    /\ prevResult = "none"
    /\ prevFailed = None
    /\ unchanged = 0
    /\ autofetch_timer = None
    /\ should_continue = [t \in Timers |-> FALSE]
    /\ is_running = [t \in Timers |-> FALSE]
    /\ thread = [t \in Timers |-> "none"]
    /\ finished = [t \in Timers |-> FALSE]
    /\ stopPc = "idle"
    /\ atStop = "none"

\* a Monitor constructed with init=False on a new file, with a handler or
\* with update_function left None
Init ==
    /\ feed = <<>>
    /\ endToken \in BOOLEAN
    /\ tableExists = TRUE
    /\ db = EmptyTable
    /\ Quiet
    /\ init = FALSE
    /\ update_function \in {"None", "function"}
    /\ ctorPc = "done"
    /\ progress_db = "path"
    /\ update = update_function

\* --------------------------------------------------------------- the feed
\* a super chat arrives at the head of the feed: a new identifier, or one
\* the feed holds already.  The feed is read by requests only, so an
\* arrival is taken when a caller is about to send one.
Arrival(longest) ==
    /\ Len(feed) < longest
    /\ \E c \in Callers : pc[c] = "request"
    /\ \E i \in Range(feed) \cup Fresh(feed) :
           /\ Repeats(<<i>> \o feed) <= MaxDups
           /\ feed' = <<i>> \o feed
    /\ unchanged' = IF pc[Main] = "request" /\ pages[Main] = 0 THEN 1 ELSE 0
    /\ UNCHANGED <<endToken, storeVars, fetchVars, cycleVars, earlier, prevResult,
                   prevFailed, schedVars, ctorVars>>

AddItem == Arrival(MaxFeed)

\* the process ends (whatever fetch() was doing) and a new Monitor is
\* constructed on the same progress_db with init=False
Restart ==
    /\ tableExists' = TRUE
    /\ db' = CreateTable(tableExists, db)
    /\ writer' = None
    /\ con' = [c \in Callers |-> EmptyTable]
    /\ pc' = [c \in Callers |-> "idle"]
    /\ token' = [c \in Callers |-> None]
    /\ is_finished' = [c \in Callers |-> FALSE]
    /\ buffer' = [c \in Callers |-> <<>>]
    /\ page' = [c \in Callers |-> <<>>]
    /\ idx' = [c \in Callers |-> 1]
    /\ calls' = [c \in Callers |-> <<>>]
    /\ pages' = [c \in Callers |-> 0]
    /\ result' = [c \in Callers |-> "none"]
    /\ failed' = [c \in Callers |-> None]
    /\ failedAt' = [c \in Callers |-> 0]
    /\ seenAtPage' = [c \in Callers |-> {}]
    /\ noToken' = [c \in Callers |-> FALSE]
    /\ earlier' = {}
    /\ prevResult' = "none"
    /\ prevFailed' = None
    /\ unchanged' = 0
    /\ update_function' \in {"None", "function"}
    /\ update' = update_function'
    /\ UNCHANGED <<feedVars, schedVars, init, ctorPc, progress_db>>

\* ------------------------------------------------------------------ fetch
\* the cycle of caller c ends by an exception: the with block rolls back,
\* and the locals of fetch() are gone
Raise(c, how) ==
    /\ db' = Rollback(db, con[c])
    /\ writer' = Released(writer, c)
    /\ con' = [con EXCEPT ![c] = EmptyTable]
    /\ pc' = [pc EXCEPT ![c] = "idle"]
    /\ token' = [token EXCEPT ![c] = None]
    /\ is_finished' = [is_finished EXCEPT ![c] = FALSE]
    /\ buffer' = [buffer EXCEPT ![c] = <<>>]
    /\ result' = [result EXCEPT ![c] = how]
    /\ UNCHANGED tableExists

\* the cycle of caller c leaves the loop: con.commit(), and the locals of
\* fetch() are gone
Return(c, inserted) ==
    /\ db' = Commit(db, inserted)
    /\ writer' = Released(writer, c)
    /\ con' = [con EXCEPT ![c] = EmptyTable]
    /\ pc' = [pc EXCEPT ![c] = "idle"]
    /\ token' = [token EXCEPT ![c] = None]
    /\ is_finished' = [is_finished EXCEPT ![c] = FALSE]
    /\ buffer' = [buffer EXCEPT ![c] = <<>>]
    /\ result' = [result EXCEPT ![c] = "returned"]
    /\ UNCHANGED tableExists

\* caller c enters fetch(): buffer = [], the connection is opened,
\* token = None
EnterFetch(c) ==
    /\ pc[c] = "idle"
    /\ RowCount(db) <= MaxRows
    /\ pc' = [pc EXCEPT ![c] = "request"]
    /\ con' = [con EXCEPT ![c] = EmptyTable]
    /\ token' = [token EXCEPT ![c] = None]
    /\ is_finished' = [is_finished EXCEPT ![c] = FALSE]
    /\ buffer' = [buffer EXCEPT ![c] = <<>>]
    /\ page' = [page EXCEPT ![c] = <<>>]
    /\ idx' = [idx EXCEPT ![c] = 1]
    /\ calls' = [calls EXCEPT ![c] = <<>>]
    /\ pages' = [pages EXCEPT ![c] = 0]
    /\ result' = [result EXCEPT ![c] = "running"]
    /\ failed' = [failed EXCEPT ![c] = None]
    /\ failedAt' = [failedAt EXCEPT ![c] = 0]
    /\ seenAtPage' = [seenAtPage EXCEPT ![c] = {}]
    /\ noToken' = [noToken EXCEPT ![c] = FALSE]
    /\ IF c = Main
       THEN /\ earlier' = IF result[c] = "transport" THEN earlier
                           ELSE earlier \cup Returned(calls[c], failedAt[c])
            /\ prevResult' = result[c]
            /\ prevFailed' = failed[c]
            /\ unchanged' = Min(unchanged + 1, 2)
       ELSE UNCHANGED histVars
    /\ UNCHANGED <<feedVars, storeVars, ctorVars>>

\* fetch() is called by hand
BeginFetch ==
    /\ EnterFetch(Main)
    /\ UNCHANGED schedVars

\* request.execute() raises
TransportError(c) ==
    /\ pc[c] = "request"
    /\ pages' = [pages EXCEPT ![c] = @ + 1]
    /\ Raise(c, "transport")
    /\ UNCHANGED <<feedVars, page, idx, calls, failed, failedAt, seenAtPage, noToken,
                   histVars, schedVars, ctorVars>>

\* the response has no "nextPageToken": response["nextPageToken"] raises
PageKeyError(c) ==
    /\ pc[c] = "request"
    /\ ~HasNextPageToken(feed, token[c], endToken)
    /\ pages' = [pages EXCEPT ![c] = @ + 1]
    /\ page' = [page EXCEPT ![c] = Items(feed, token[c])]
    /\ idx' = [idx EXCEPT ![c] = 1]
    /\ seenAtPage' = [seenAtPage EXCEPT ![c] = {i \in Ids : IsFetched(i, View(db, con[c]))}]
    /\ noToken' = [noToken EXCEPT ![c] = TRUE]
    /\ Raise(c, "KeyError")
    /\ UNCHANGED <<feedVars, calls, failed, failedAt, histVars, schedVars, ctorVars>>

\* the response has a token and no items: break, commit
PageEmpty(c) ==
    /\ pc[c] = "request"
    /\ HasNextPageToken(feed, token[c], endToken)
    /\ Items(feed, token[c]) = <<>>
    /\ pages' = [pages EXCEPT ![c] = @ + 1]
    /\ page' = [page EXCEPT ![c] = <<>>]
    /\ idx' = [idx EXCEPT ![c] = 1]
    /\ seenAtPage' = [seenAtPage EXCEPT ![c] = {i \in Ids : IsFetched(i, View(db, con[c]))}]
    /\ noToken' = [noToken EXCEPT ![c] = FALSE]
    /\ Return(c, con[c])
    /\ UNCHANGED <<feedVars, calls, failed, failedAt, histVars, schedVars, ctorVars>>

\* the response has a token and items: buffer = [], the item loop starts
PageItems(c) ==
    /\ pc[c] = "request"
    /\ HasNextPageToken(feed, token[c], endToken)
    /\ Items(feed, token[c]) # <<>>
    /\ pages' = [pages EXCEPT ![c] = @ + 1]
    /\ is_finished' = [is_finished EXCEPT ![c] = FALSE]
    /\ token' = [token EXCEPT ![c] = NextToken(feed, token[c])]
    /\ page' = [page EXCEPT ![c] = Items(feed, token[c])]
    /\ idx' = [idx EXCEPT ![c] = 1]
    /\ buffer' = [buffer EXCEPT ![c] = <<>>]
    /\ seenAtPage' = [seenAtPage EXCEPT ![c] = {i \in Ids : IsFetched(i, View(db, con[c]))}]
    /\ noToken' = [noToken EXCEPT ![c] = FALSE]
    /\ pc' = [pc EXCEPT ![c] = "items"]
    /\ UNCHANGED <<feedVars, storeVars, con, calls, result, failed, failedAt, histVars,
                   schedVars, ctorVars>>

\* the item is fetched already: is_finished = True, continue
ItemSeen(c) ==
    /\ pc[c] = "items" /\ idx[c] <= Len(page[c])
    /\ IsFetched(page[c][idx[c]], View(db, con[c]))
    /\ is_finished' = [is_finished EXCEPT ![c] = TRUE]
    /\ idx' = [idx EXCEPT ![c] = @ + 1]
    /\ UNCHANGED <<feedVars, storeVars, con, pc, token, buffer, page, cycleVars,
                   histVars, schedVars, ctorVars>>

\* the item is new: its id goes to the buffer and the handler returns
ItemDelivered(c) ==
    /\ pc[c] = "items" /\ idx[c] <= Len(page[c])
    /\ ~IsFetched(page[c][idx[c]], View(db, con[c]))
    /\ update = "function"
    /\ buffer' = [buffer EXCEPT ![c] = Append(@, page[c][idx[c]])]
    /\ calls' = [calls EXCEPT ![c] = Append(@, page[c][idx[c]])]
    /\ idx' = [idx EXCEPT ![c] = @ + 1]
    /\ UNCHANGED <<feedVars, storeVars, con, pc, token, is_finished, page, pages,
                   result, failed, failedAt, seenAtPage, noToken, histVars, schedVars,
                   ctorVars>>

\* the item is new: its id goes to the buffer and the handler raises
ItemHandlerRaises(c) ==
    /\ pc[c] = "items" /\ idx[c] <= Len(page[c])
    /\ ~IsFetched(page[c][idx[c]], View(db, con[c]))
    /\ update = "function"
    /\ calls' = [calls EXCEPT ![c] = Append(@, page[c][idx[c]])]
    /\ failed' = [failed EXCEPT ![c] = page[c][idx[c]]]
    /\ failedAt' = [failedAt EXCEPT ![c] = Len(calls[c]) + 1]
    /\ Raise(c, "handler")
    /\ UNCHANGED <<feedVars, page, idx, pages, seenAtPage, noToken, histVars, schedVars,
                   ctorVars>>

\* the item is new and self.__update is None: calling it raises TypeError,
\* and no handler was called
ItemUpdateNone(c) ==
    /\ pc[c] = "items" /\ idx[c] <= Len(page[c])
    /\ ~IsFetched(page[c][idx[c]], View(db, con[c]))
    /\ update = "None"
    /\ Raise(c, "TypeError")
    /\ UNCHANGED <<feedVars, page, idx, calls, pages, failed, failedAt, seenAtPage,
                   noToken, histVars, schedVars, ctorVars>>

\* the item loop is over: the buffer is inserted, which takes the write lock
\* of the file; break and commit when a fetched item was met, else the next
\* page is requested.  While another connection holds the lock the INSERT
\* waits.
EndPage(c) ==
    /\ pc[c] = "items" /\ idx[c] > Len(page[c])
    /\ buffer[c] = <<>> \/ LockFree(writer, c)
    /\ IF is_finished[c]
       THEN Return(c, InsertAll(con[c], buffer[c]))
       ELSE /\ con' = [con EXCEPT ![c] = InsertAll(@, buffer[c])]
            /\ writer' = IF buffer[c] = <<>> THEN writer ELSE c
            /\ pc' = [pc EXCEPT ![c] = "request"]
            /\ UNCHANGED <<tableExists, db, token, is_finished, buffer, result>>
    /\ UNCHANGED <<feedVars, page, idx, calls, pages, failed, failedAt, seenAtPage,
                   noToken, histVars, schedVars, ctorVars>>

\* the INSERT has waited for the lock for the connection's timeout (5 s):
\* sqlite3.OperationalError, database is locked
EndPageLocked(c) ==
    /\ pc[c] = "items" /\ idx[c] > Len(page[c])
    /\ buffer[c] # <<>> /\ ~LockFree(writer, c)
    /\ Raise(c, "sqlite")
    /\ UNCHANGED <<feedVars, page, idx, calls, pages, failed, failedAt, seenAtPage,
                   noToken, histVars, schedVars, ctorVars>>

\* the steps of a fetch() that has the file to itself
FetchStep(c) ==
    \/ TransportError(c)
    \/ PageKeyError(c)
    \/ PageEmpty(c)
    \/ PageItems(c)
    \/ ItemSeen(c)
    \/ ItemDelivered(c)
    \/ ItemHandlerRaises(c)
    \/ ItemUpdateNone(c)
    \/ EndPage(c)

Fetch == BeginFetch \/ FetchStep(Main)

Next == AddItem \/ Restart \/ Fetch

Spec == Init /\ [][Next]_vars

\* the fetch cycles of one Monitor whose handler never raises and whose
\* requests never fail in transport, on a feed that may grow longer
AddItemWalk == Arrival(MaxWalkFeed)

InitWalk == Init /\ update_function = "function"

NextWalk ==
    \/ AddItemWalk
    \/ BeginFetch
    \/ PageKeyError(Main)
    \/ PageEmpty(Main)
    \/ PageItems(Main)
    \/ ItemSeen(Main)
    \/ ItemDelivered(Main)
    \/ EndPage(Main)

SpecWalk == InitWalk /\ [][NextWalk]_vars

\* ---------------------------------------------------------- the scheduler
fetchSide == <<feedVars, storeVars, fetchVars, cycleVars, histVars, ctorVars>>
Created == IF autofetch_timer = None THEN 0 ELSE autofetch_timer
\* the fetch cycles in flight: the timers inside self.target()
InFlight == {t \in Timers : thread[t] = "target"}
\* the Timer threads that are started and will call _handle_target
PendingTicks == {t \in Timers : thread[t] = "waiting" /\ ~finished[t]}
\* start() was called and stop() was not called since
SchedRunning == autofetch_timer # None /\ should_continue[autofetch_timer]
\* no cycle is running or about to: every live chain sleeps in its Timer
WaitingForTick ==
    /\ PendingTicks # {}
    /\ \A t \in Timers : thread[t] \in {"none", "waiting", "ended", "dead"}

\* __AutoFetchTimer.start: if not self._should_continue and not self.is_running
TimerStartGuard(sc, ir) == ~sc /\ ~ir

\* YTSCMonitor.start: a new __AutoFetchTimer (its __init__), then its start()
\* and, through _start_timer, a started Timer
Start ==
    /\ stopPc = "idle"
    /\ Created < MaxTimers
    /\ LET t == Created + 1 IN
        /\ autofetch_timer' = t
        /\ IF TimerStartGuard(FALSE, FALSE)
           THEN /\ should_continue' = [should_continue EXCEPT ![t] = TRUE]
                /\ thread' = [thread EXCEPT ![t] = "waiting"]
           ELSE /\ should_continue' = [should_continue EXCEPT ![t] = FALSE]
                /\ thread' = [thread EXCEPT ![t] = "none"]
        /\ is_running' = [is_running EXCEPT ![t] = FALSE]
        /\ finished' = [finished EXCEPT ![t] = FALSE]
    /\ atStop' = "none"
    /\ UNCHANGED <<stopPc, fetchSide>>

\* YTSCMonitor.stop with no timer: only the print
StopNoTimer ==
    /\ stopPc = "idle"
    /\ autofetch_timer = None
    /\ UNCHANGED vars

\* YTSCMonitor.stop, cancel(): if self.thread is not None: _should_continue = False
StopFlag ==
    /\ stopPc = "idle"
    /\ autofetch_timer # None
    /\ thread[autofetch_timer] # "none"
    /\ should_continue' = [should_continue EXCEPT ![autofetch_timer] = FALSE]
    /\ atStop' = IF WaitingForTick THEN "waiting"
                  ELSE IF autofetch_timer \in InFlight THEN "cycle" ELSE "busy"
    /\ stopPc' = "cancel"
    /\ UNCHANGED <<autofetch_timer, is_running, thread, finished, fetchSide>>

\* cancel(): self.thread.cancel() sets the finished event of the Timer that
\* self.thread names at this moment; stop() returns
StopCancel ==
    /\ stopPc = "cancel"
    /\ finished' = [finished EXCEPT ![autofetch_timer] = TRUE]
    /\ atStop' = IF atStop = "waiting" /\ ~WaitingForTick THEN "busy" ELSE atStop
    /\ stopPc' = "idle"
    /\ UNCHANGED <<autofetch_timer, should_continue, is_running, thread, fetchSide>>

\* Timer.run: the interval is over and the Timer was not cancelled
TimerExpires(t) ==
    /\ thread[t] = "waiting" /\ ~finished[t]
    /\ thread' = [thread EXCEPT ![t] = "fired"]
    /\ UNCHANGED <<autofetch_timer, should_continue, is_running, finished, stopPc,
                   atStop, fetchSide>>

\* Timer.run: the Timer was cancelled while waiting, its thread ends
TimerCancelled(t) ==
    /\ thread[t] = "waiting" /\ finished[t]
    /\ thread' = [thread EXCEPT ![t] = "ended"]
    /\ UNCHANGED <<autofetch_timer, should_continue, is_running, finished, stopPc,
                   atStop, fetchSide>>

\* _handle_target: is_running = True, and self.target(), which is the
\* monitor's fetch, is entered
HandleTarget(t) ==
    /\ thread[t] = "fired"
    /\ is_running' = [is_running EXCEPT ![t] = TRUE]
    /\ thread' = [thread EXCEPT ![t] = "target"]
    /\ EnterFetch(t)
    /\ UNCHANGED <<autofetch_timer, should_continue, finished, stopPc, atStop>>

\* the steps of the fetch() that self.target() is executing
TargetStep(t) ==
    /\ thread[t] = "target"
    /\ FetchStep(t)

\* the fetch() that self.target() is executing fails for the locked file
TargetLocked(t) ==
    /\ thread[t] = "target"
    /\ EndPageLocked(t)

\* self.target() returns: is_running = False, _start_timer is entered
TargetReturns(t) ==
    /\ thread[t] = "target"
    /\ pc[t] = "idle" /\ result[t] = "returned"
    /\ is_running' = [is_running EXCEPT ![t] = FALSE]
    /\ thread' = [thread EXCEPT ![t] = "restart"]
    /\ UNCHANGED <<autofetch_timer, should_continue, finished, stopPc, atStop,
                   fetchSide>>

\* self.target() raises: the exception ends the Timer thread
TargetRaises(t) ==
    /\ thread[t] = "target"
    /\ pc[t] = "idle" /\ result[t] \in Results \ {"returned"}
    /\ thread' = [thread EXCEPT ![t] = "dead"]
    /\ UNCHANGED <<autofetch_timer, should_continue, is_running, finished, stopPc,
                   atStop, fetchSide>>

\* _start_timer: if self._should_continue.  When it is not, _handle_target
\* returns and Timer.run sets the finished event of its Timer, which is the
\* one self.thread names
StartTimerCheck(t) ==
    /\ thread[t] = "restart"
    /\ thread' = [thread EXCEPT ![t] = IF should_continue[t] THEN "arming" ELSE "ended"]
    /\ finished' = [finished EXCEPT ![t] = IF should_continue[t] THEN @ ELSE TRUE]
    /\ UNCHANGED <<autofetch_timer, should_continue, is_running, stopPc, atStop,
                   fetchSide>>

\* _start_timer: self.thread = Timer(...); self.thread.start()
StartTimerArm(t) ==
    /\ thread[t] = "arming"
    /\ thread' = [thread EXCEPT ![t] = "waiting"]
    /\ finished' = [finished EXCEPT ![t] = FALSE]
    /\ UNCHANGED <<autofetch_timer, should_continue, is_running, stopPc, atStop,
                   fetchSide>>

TimerThread(t) ==
    \/ TimerExpires(t)
    \/ TimerCancelled(t)
    \/ HandleTarget(t)
    \/ TargetStep(t)
    \/ TargetLocked(t)
    \/ TargetReturns(t)
    \/ TargetRaises(t)
    \/ StartTimerCheck(t)
    \/ StartTimerArm(t)

AddItemSched == Arrival(MaxSchedFeed)

NextSched ==
    \/ Start
    \/ StopNoTimer
    \/ StopFlag
    \/ StopCancel
    \/ AddItemSched
    \/ \E t \in Timers : TimerThread(t)

SpecSched == Init /\ [][NextSched]_vars

\* fetch() called by hand while the timers run
HandFetch == BeginFetch \/ FetchStep(Main) \/ EndPageLocked(Main)

NextOverlap == NextSched \/ HandFetch

SpecOverlap == Init /\ [][NextOverlap]_vars

\* ------------------------------------------------------------ constructor
FeedOf(n) == [k \in 1..n |-> n + 1 - k]
TableOf(k) == [i \in Ids |-> IF i <= k THEN 1 ELSE 0]

\* before YTSCMonitor(client_secrets_file, progress_db, update_function,
\* init) runs: the file may hold the table of an earlier run or no table,
\* update_function is a handler or the default None, and the new object has
\* no __progress_db and the class's __update = None
InitCtor ==
    /\ \E n \in 0..MaxFeed :
          /\ feed = FeedOf(n)
          /\ \/ tableExists = FALSE /\ db = EmptyTable
             \/ tableExists = TRUE /\ \E k \in 0..n : db = TableOf(k)
    /\ endToken \in BOOLEAN
    /\ Quiet
    /\ init \in BOOLEAN
    /\ update_function \in {"None", "function"}
    /\ ctorPc = "init"
    /\ progress_db = "unset"
    /\ update = "None"

ctorRest == <<feedVars, fetchVars, cycleVars, histVars, schedVars>>

\* if init: self.fetch(), whose sqlite3.connect(self.__progress_db) reads an
\* attribute that does not exist yet: AttributeError leaves fetch() and
\* __init__
CtorFetchRaises ==
    /\ ctorPc = "init"
    /\ init
    /\ progress_db = "unset"
    /\ ctorPc' = "raised"
    /\ UNCHANGED <<init, update_function, progress_db, update, storeVars, ctorRest>>

\* init is False: no initial fetch
CtorSkipFetch ==
    /\ ctorPc = "init"
    /\ ~init
    /\ ctorPc' = "update"
    /\ UNCHANGED <<init, update_function, progress_db, update, storeVars, ctorRest>>

\* self.__update = update_function
CtorSetUpdate ==
    /\ ctorPc = "update"
    /\ update' = update_function
    /\ ctorPc' = "progress_db"
    /\ UNCHANGED <<init, update_function, progress_db, storeVars, ctorRest>>

\* self.__progress_db = progress_db
CtorSetProgressDb ==
    /\ ctorPc = "progress_db"
    /\ progress_db' = "path"
    /\ ctorPc' = "table"
    /\ UNCHANGED <<init, update_function, update, storeVars, ctorRest>>

\* CREATE TABLE IF NOT EXISTS superchats (id TEXT); commit
CtorCreateTable ==
    /\ ctorPc = "table"
    /\ tableExists' = TRUE
    /\ db' = CreateTable(tableExists, db)
    /\ ctorPc' = "done"
    /\ UNCHANGED <<init, update_function, progress_db, update, writer, ctorRest>>

NextCtor ==
    \/ CtorFetchRaises
    \/ CtorSkipFetch
    \/ CtorSetUpdate
    \/ CtorSetProgressDb
    \/ CtorCreateTable

SpecCtor == InitCtor /\ [][NextCtor]_vars

\* ----------------------------------------------------------------- claims
\* the last fetch() called by hand is over
CycleOver == pc[Main] = "idle" /\ result[Main] \in Results
OnPage == 1..Len(page[Main])
\* the current page holds fetched and unfetched identifiers
MixedPage ==
    /\ \E k \in OnPage : page[Main][k] \in seenAtPage[Main]
    /\ \E k \in OnPage : page[Main][k] \notin seenAtPage[Main]

\* no identifier occurs twice in the feed
UniqueIds == Repeats(feed) = 0

\* C1 (Spec): with a feed of unique identifiers, an identifier whose handler
\* call returned in an earlier cycle of this Monitor (one that no transport
\* error cut short) is not handed to the handler in the current cycle.
C1_NoRedelivery ==
    UniqueIds => \A k \in 1..Len(calls[Main]) : calls[Main][k] \notin earlier

\* C2 (SpecSched): at most one fetch cycle is in flight, whatever start()
\* and stop() calls and timer expiries have happened.
C2_OneCycleInFlight == Cardinality(InFlight) <= 1

\* C3 (Spec): when the feed (of unique identifiers) has not changed since
\* before the previous fetch() began, and that call met neither a transport
\* error nor a handler failure, the current fetch() makes no handler call.
C3_SecondFetchSilent ==
    (UniqueIds /\ unchanged = 2 /\ prevResult \in {"returned", "KeyError"})
        => calls[Main] = <<>>

\* C4 (Spec): after a cycle in which the handler raised for x, x is not
\* fetched in the committed table; and the next cycle, when x is still in the
\* feed and no transport error ends it, hands x to the handler again.
C4_FailedItemRedelivered ==
    /\ (pc[Main] = "idle" /\ result[Main] = "handler") => ~IsFetched(failed[Main], db)
    /\ ( /\ CycleOver /\ result[Main] # "transport"
         /\ prevResult = "handler"
         /\ \E k \in 1..Len(feed) : feed[k] = prevFailed )
       => \E k \in 1..Len(calls[Main]) : calls[Main][k] = prevFailed

\* C5 (Spec): when the handler raised for an item, every unfetched item after
\* it on the same page is handed to the handler later in that cycle.
C5_HandlerFailureIsolated ==
    (UniqueIds /\ pc[Main] = "idle" /\ result[Main] = "handler") =>
        \A k \in (idx[Main] + 1)..Len(page[Main]) :
            page[Main][k] \notin seenAtPage[Main] =>
                \E j \in (failedAt[Main] + 1)..Len(calls[Main]) :
                    calls[Main][j] = page[Main][k]

\* C6 (Spec): when the last page of a cycle of a Monitor that has a handler
\* held fetched and unfetched identifiers (no transport error occurred and no
\* item arrived between the page requests), every unfetched item of it was
\* handed to the handler; and a further page is requested only after a page
\* that held no fetched identifier.
C6_MixedPageDelivered ==
    /\ ( /\ UniqueIds /\ unchanged > 0 /\ update = "function"
         /\ CycleOver /\ result[Main] # "transport" /\ MixedPage ) =>
           \A k \in OnPage :
               page[Main][k] \notin seenAtPage[Main] =>
                   \E j \in 1..Len(calls[Main]) : calls[Main][j] = page[Main][k]
    /\ (pc[Main] = "request" /\ pages[Main] > 0) =>
           \A k \in OnPage : page[Main][k] \notin seenAtPage[Main]

\* C7 (Spec): when the first page of a cycle arrived with zero items, the
\* cycle is over, it made no handler call and no further request, and
\* fetch() returned.
C7_EmptyFirstPageReturns ==
    (pages[Main] = 1 /\ page[Main] = <<>> /\ result[Main] # "transport") =>
        (pc[Main] = "idle" /\ result[Main] = "returned" /\ calls[Main] = <<>>)

\* C8 (Spec): the table stays and no step removes a committed row: every
\* identifier has at least as many committed rows after a step as before it,
\* whether the step belongs to a fetch cycle or re-opens the store.
C8_SeenSetOnlyGrows ==
    [][tableExists => (tableExists' /\ \A i \in Ids : db'[i] >= db[i])]_vars

\* a store that holds committed identifiers was re-opened by a new Monitor
C8_Witness == result[Main] = "none" /\ \E i \in Ids : db[i] > 0

\* C9 (SpecSched): a start() call (the step that sets __autofetch_timer)
\* made while the scheduler is running changes nothing of the timers: no
\* flag, no Timer thread, no pending tick.
C9_StartWhileRunningNoOp ==
    [][(autofetch_timer' # autofetch_timer /\ SchedRunning) =>
          /\ should_continue' = should_continue
          /\ thread' = thread
          /\ PendingTicks' = PendingTicks]_vars

\* C10 (SpecSched): once stop() has returned, the scheduler having waited
\* for its next tick from the call to the return, no fetch cycle begins until
\* start() is called again.
C10_StopCancelsPendingTick ==
    [][(stopPc = "idle" /\ atStop = "waiting" /\ stopPc' = "idle" /\ atStop' = "waiting")
          => InFlight' \subseteq InFlight]_vars

\* C11 (SpecSched): after one start() call, the timer chain that was not
\* stopped survives a fetch cycle that its handler or the transport made
\* raise: it is never left dead, with no Timer pending and none to come.
C11_SchedulerSurvivesCycleError ==
    Created = 1 =>
        \A t \in Timers :
            (thread[t] = "dead" /\ result[t] \in {"handler", "transport"})
                => ~should_continue[t]

\* a step that ends a fetch cycle called by hand: fetch() returns or raises
CycleEnds == pc[Main] # "idle" /\ pc'[Main] = "idle" /\ result'[Main] # "none"

\* C12 (Spec): with a feed of unique identifiers, when a cycle ends without a
\* transport error, an identifier is fetched exactly when it was fetched before
\* the cycle or the handler call for its item returned in the cycle (from the
\* empty table on: fetched if and only if handed to the handler).
C12_SeenIffDelivered ==
    [][(UniqueIds /\ CycleEnds /\ result'[Main] # "transport") =>
          \A i \in Ids :
              IsFetched(i, db') <=>
                  (IsFetched(i, db) \/ i \in Returned(calls'[Main], failedAt'[Main]))]_vars

\* the handler calls for identifier i that returned, among the calls cs of
\* which call number bad raised (0: none did)
Delivered(cs, bad, i) == Cardinality({k \in (1..Len(cs)) \ {bad} : cs[k] = i})

\* C13 (Spec): the step that ends a fetch cycle, by a return or by an
\* exception, either adds to the committed table one row for every handler
\* call of the cycle that returned, or leaves the committed table as it was
\* when the cycle began.
C13_CyclePersistedAtomically ==
    [][CycleEnds =>
          \/ \A i \in Ids :
                db'[i] = db[i] + Delivered(calls'[Main], failedAt'[Main], i)
          \/ db' = db]_vars

\* a cycle was aborted by the handler on its second or a later page, after
\* an earlier page's identifiers were inserted and a call of this page returned
C13_Witness ==
    /\ UniqueIds /\ unchanged > 0
    /\ pc[Main] = "idle" /\ result[Main] = "handler"
    /\ pages[Main] >= 2 /\ idx[Main] >= 2 /\ Len(calls[Main]) >= 2
    /\ calls[Main][Len(calls[Main]) - 1] = page[Main][idx[Main] - 1]
    /\ \A k \in 1..(Len(calls[Main]) - 1) : db[calls[Main][k]] = 0

\* C14 (Spec): the seen check answers true for an identifier exactly when the
\* committed table holds one or more rows for it.
C14_ContainsIffRecorded ==
    \A i \in Ids : IsFetched(i, db) <=> db[i] >= 1

\* C15 (SpecSched): a start() call made from idle or from stopped (the
\* first start(), or the second one after a stop() that was called while the
\* scheduler waited for its tick or executed a cycle, and has returned)
\* begins no fetch cycle itself and leaves its new timer waiting for the
\* first expiry, and the Timer it arms is armed when no fetch cycle is in
\* flight, that is only after the previous cycle returned.
C15_FirstTickThenReschedules ==
    [][(autofetch_timer' # autofetch_timer /\ Created <= 1 /\ ~SchedRunning
           /\ stopPc = "idle" /\ atStop # "busy") =>
          /\ InFlight' = InFlight
          /\ thread'[autofetch_timer'] = "waiting"
          /\ InFlight = {}]_vars

\* C16 (SpecSched): once stop() has returned, having been called while a
\* fetch cycle was executing, no fetch cycle begins until start() is called
\* again.
C16_StopDuringCycle ==
    [][(stopPc = "idle" /\ atStop = "cycle" /\ stopPc' = "idle" /\ atStop' = "cycle")
          => InFlight' \subseteq InFlight]_vars

\* the last response of the cycle called by hand carried no nextPageToken
NoTokenPage == pages[Main] > 0 /\ noToken[Main]

\* C17 (Spec): when the last response of a cycle carried no nextPageToken,
\* with or without items, the cycle made no further request: fetch()
\* returned and every identifier it handed to the handler is fetched.
C17_NoTokenStopsWalk ==
    (CycleOver /\ result[Main] # "transport" /\ NoTokenPage) =>
        /\ result[Main] = "returned"
        /\ \A k \in 1..Len(calls[Main]) : IsFetched(calls[Main][k], db)

\* C18 (Spec): the handler calls of one fetch cycle are for pairwise
\* different identifiers.
C18_OncePerIdInCycle ==
    \A j, k \in 1..Len(calls[Main]) : j # k => calls[Main][j] # calls[Main][k]

\* C19 (SpecWalk): when a fetch cycle that made handler calls returns, the
\* oldest item of the feed (of unique identifiers), which was in the feed
\* when the cycle began for the first page was not empty, has been handed to
\* the handler in this or an earlier cycle.
C19_NoItemSkipped ==
    (UniqueIds /\ pc[Main] = "idle" /\ result[Main] = "returned" /\ calls[Main] # <<>>) =>
        feed[Len(feed)] \in earlier \cup Range(calls[Main])

\* C20 (SpecCtor): the constructor never ends by an exception, whatever its
\* init argument, and it leaves no timer behind.
C20_ConstructorCompletes ==
    ctorPc # "raised" /\ autofetch_timer = None

====
